---- MODULE Spec2Model ----
(***************************************************************************)
(* A model of the graph-builder of lucab/cincinnati.                       *)
(*                                                                         *)
(* Two programs share the source tree:                                     *)
(*   - the binary (main.rs): scanner.rs's RegistryScanner, which starts    *)
(*     RepoScanner actors and caps them at MAX_REPO_SCANS, and cache.rs's  *)
(*     CacheManager, the tag-keyed cache actor;                            *)
(*   - the library (lib.rs): registry_scanner.rs's RegistryScanner, whose  *)
(*     ScanRepo handler spawns a full scan cycle (registry.rs), builds     *)
(*     the graph (graph.rs) and publishes the JSON snapshot.               *)
(* SpecCache and SpecScanner are behaviours of the first, SpecCycle and    *)
(* SpecBurst of the second; SpecGraph applies the second's update_state    *)
(* and create_graph to release lists drawn from a bounded set; SpecFind    *)
(* runs the second's cycles on repositories chosen for their manifests    *)
(* and layers; SpecServe is graph.rs's HTTP handler beside update_state;   *)
(* SpecPlugins is the plugin loader of cincinnati (plugins/catalog.rs);    *)
(* SpecReads is either program, the library's registry losing tags while   *)
(* cycles are in flight.                                                   *)
(***************************************************************************)
EXTENDS Integers, Sequences, FiniteSets, TLC

(***************************************************************************)
(* Bounds of the model.                                                    *)
(***************************************************************************)
\* Messages that cache clients other than the scans send in SpecCache.
MaxMsgs == 4
\* Ticks of the scanner's interval timer (scanner.rs) in SpecScanner.
MaxTicks == 6
\* Scan cycles triggered (registry_scanner.rs) in SpecCycle.
MaxCycles == 3
\* Releases in a list handed to update_state in SpecGraph.
MaxInput == 3
\* HTTP requests received in SpecServe.
MaxRequests == 3
\* Scan cycles triggered in SpecFind.
MaxFindCycles == 2

(***************************************************************************)
(* Program constants.                                                      *)
(***************************************************************************)
\* scanner.rs:13
MAX_REPO_SCANS == 5

(***************************************************************************)
(* Values.                                                                 *)
(***************************************************************************)
\* Cache keys (cache.rs: Insert.tag, Query.tag). "foo" is the key that a
\* RepoScanner scan inserts (scanner.rs:129).
Tags == {"foo", "bar"}

\* registry::Release values, opaque to the cache.
Releases == {"rel1", "rel2"}

\* Option<registry::Release>: None is the empty sequence, Some(r) is <<r>>.
None == <<>>
Some(r) == <<r>>
OptRelease == {None} \cup {Some(r) : r \in Releases}

\* cache.rs: enum Cached { VacantEntry, KnownTag(Option<Release>) }
VacantEntry == [kind |-> "VacantEntry", release |-> None]
KnownTag(o) == [kind |-> "KnownTag", release |-> o]

\* cache.rs: struct Insert { tag, release }, struct Query { tag }.  `from` is
\* the sender: 0 for a client outside the scans, else the RepoScanner's id.
Insert(t, o, s) == [type |-> "Insert", tag |-> t, release |-> o, from |-> s]
Query(t) == [type |-> "Query", tag |-> t, release |-> None, from |-> 0]

\* No reply on the wire (nothing handled yet, or the last message handled was
\* an Insert, whose result is ()).
NoReply == [type |-> "none", tag |-> "", cached |-> VacantEntry]

VARIABLES
    \* cache.rs CacheManager
    no_release,       \* HashSet<String>: tags cached as negative results
    tagged_release,   \* BTreeMap<String, Release>: a function on a subset of Tags
    inbox,            \* the CacheManager's mailbox, FIFO
    reply,            \* what the handler of the last handled message replied
    \* history of the cache, for the claims
    inserted,         \* per tag, the values of the Inserts handled, in order
    hitSeen,          \* per tag that a handled Query answered KnownTag: how many
                      \* Inserts for it had been handled at the first such reply
    absorbed,         \* ids of the scans whose Insert the cache has handled
    nSent,            \* messages sent by clients outside the scans
    \* scanner.rs RegistryScanner and its RepoScanner actors
    started,          \* Actor::started has run
    pending,          \* ScanRepo messages in the scanner's mailbox
    nTicks,           \* interval ticks so far
    scans,            \* Vec<Addr<RepoScanner>>: ids of the recorded scans
    scan_state,       \* per RepoScanner id, where its scan future stands
    evicted,          \* ids popped from scans by the ScanRepo handler, in order
    lateActs,         \* ids of scans that acted after their eviction
    \* the registry, as the scan cycles of registry_scanner.rs see it
    regTags,          \* the repository's tags, in the order the registry lists them
    \* registry_scanner.rs RegistryScanner, its cycles, the cache they use
    rs_state,         \* the actor: "created", "running" or "stopped"
    rs_pending,       \* ScanRepo messages in its mailbox
    rs_ticks,         \* interval ticks so far
    cycles,           \* the scan cycles spawned (registry_scanner.rs:165-172), by trigger
    cache,            \* HashMap<u64, Option<Release>>: a function on the hashes cached
    json,             \* graph::State.json, the serving snapshot
    writers,          \* the cycles that have written json, in order
    \* update_state and create_graph on their own (SpecGraph)
    g_todo,           \* the release lists still to be handed to update_state
    g_releases,       \* the release list handed to update_state last
    g_built,          \* what create_graph returned for it
    g_prior,          \* json as it was when update_state was called
    \* graph.rs: the lock around json and the HTTP handler (SpecServe)
    rw_writing,       \* Some(value) while update_state holds the write lock
    rw_readers,       \* the handlers that hold the read lock
    http_resp,        \* the response to the request answered last
    nReqs,            \* requests received so far
    handed,           \* the serialized graphs update_state has written in full
    \* plugins/catalog.rs (SpecPlugins)
    p_cfg,            \* the configuration entry, a toml::Value
    p_settings,       \* what deserialize_config returned for it
    p_plugin          \* what build_plugin returned for the settings

varsCache == <<no_release, tagged_release, inbox, reply, inserted, hitSeen, absorbed, nSent>>
varsScanner == <<started, pending, nTicks, scans, scan_state, evicted, lateActs>>
varsCycle == <<regTags, rs_state, rs_pending, rs_ticks, cycles, cache, json, writers>>
varsGraph == <<g_todo, g_releases, g_built, g_prior>>
varsServe == <<rw_writing, rw_readers, http_resp, nReqs, handed>>
varsPlugins == <<p_cfg, p_settings, p_plugin>>
vars == <<varsCache, varsScanner, varsCycle, varsGraph, varsServe, varsPlugins>>

(***************************************************************************)
(* cache.rs: the CacheManager.                                             *)
(***************************************************************************)
\* BTreeMap::insert and HashSet::insert.
MapInsert(m, k, v) == [t \in (DOMAIN m) \cup {k} |-> IF t = k THEN v ELSE m[t]]

\* Handler<Query>::handle (cache.rs:67-77), on the sets nr and tr.
QueryResultNoNegative(nr, tr, t) ==
    IF t \in DOMAIN tr THEN KnownTag(Some(tr[t])) ELSE VacantEntry

QueryResult(nr, tr, t) ==
    IF t \in nr THEN KnownTag(None)
    ELSE IF t \in DOMAIN tr THEN KnownTag(Some(tr[t]))
    ELSE VacantEntry

\* Handler<Insert>::handle (cache.rs:84-94): the new no_release.
InsertNoReleaseReplacing(nr, t, o) == IF o = None THEN {t} ELSE nr

InsertNoRelease(nr, t, o) == IF o = None THEN nr \cup {t} ELSE nr

\* Handler<Insert>::handle (cache.rs:84-94): the new tagged_release.
InsertTaggedSingle(tr, t, o) ==
    IF o = None THEN tr ELSE [k \in {t} |-> o[1]]

InsertTaggedRelease(tr, t, o) ==
    IF o = None THEN tr ELSE MapInsert(tr, t, o[1])

\* What a Query for tag t would be answered in the current state.
Cached(t) == QueryResult(no_release, tagged_release, t)

InitCache ==
    /\ no_release = {}
    /\ tagged_release = [t \in {} |-> "rel1"]
    /\ inbox = <<>>
    /\ reply = NoReply
    /\ inserted = [t \in Tags |-> <<>>]
    /\ hitSeen = [t \in {} |-> 0]
    /\ absorbed = {}
    /\ nSent = 0

\* A client outside the scans sends a message to the CacheManager's address.
ClientSend ==
    /\ nSent < MaxMsgs
    /\ \E m \in {Insert(t, o, 0) : t \in Tags, o \in OptRelease} \cup {Query(t) : t \in Tags} :
          inbox' = Append(inbox, m)
    /\ nSent' = nSent + 1
    /\ UNCHANGED <<no_release, tagged_release, reply, inserted, hitSeen, absorbed>>

\* The CacheManager takes a Query from its mailbox and replies.
HandleQueryMsg ==
    /\ inbox # <<>>
    /\ Head(inbox).type = "Query"
    /\ LET t == Head(inbox).tag
           c == QueryResult(no_release, tagged_release, t)
       IN /\ reply' = [type |-> "Query", tag |-> t, cached |-> c]
          /\ hitSeen' = IF c.kind = "KnownTag" /\ t \notin DOMAIN hitSeen
                        THEN MapInsert(hitSeen, t, Len(inserted[t]))
                        ELSE hitSeen
    /\ inbox' = Tail(inbox)
    /\ UNCHANGED <<no_release, tagged_release, inserted, absorbed, nSent>>

\* The cache's part of handling an Insert.
CacheInsert(m) ==
    /\ no_release' = InsertNoRelease(no_release, m.tag, m.release)
    /\ tagged_release' = InsertTaggedRelease(tagged_release, m.tag, m.release)
    /\ inserted' = [inserted EXCEPT ![m.tag] = Append(@, m.release)]
    /\ absorbed' = IF m.from = 0 THEN absorbed ELSE absorbed \cup {m.from}
    /\ reply' = NoReply
    /\ inbox' = Tail(inbox)
    /\ UNCHANGED <<hitSeen, nSent>>

(***************************************************************************)
(* scanner.rs: the RegistryScanner and the RepoScanner actors it starts.   *)
(***************************************************************************)
\* Where a RepoScanner's scan future (scanner.rs:97-136) stands:
\*   "auth"       authenticate_client2 is outstanding (scanner.rs:110-113)
\*   "tags"       the tag stream is being fetched and printed (115-123)
\*   "insert"     the Insert was sent, its reply is awaited (124-133)
\*   "done"       the future resolved Ok
\*   "error"      the future resolved Err (scan error, 135)
\*   "cancelled"  the actor was dropped with the future unresolved (142-146)
Running == {"auth", "tags", "insert"}

Range(q) == {q[i] : i \in 1..Len(q)}

\* Vec::pop (scanner.rs:77): the index of the element it removes.
PopIndex(v) == Len(v)

\* drop(addr) of the only address of a RepoScanner (scanner.rs:78): the actor
\* is dropped and with it the scan it spawned ("auto-cancels when the actor
\* is dropped", scanner.rs:143-144).  A resolved future stays as it is.
DropAddrLeaked(phase) == phase

DropAddr(phase) == IF phase \in Running THEN "cancelled" ELSE phase

\* A step of scan s, recorded when s has been evicted before.
Acts(s) == lateActs' = IF s \in Range(evicted) THEN lateActs \cup {s} ELSE lateActs

InitScanner ==
    /\ started = FALSE
    /\ pending = 0
    /\ nTicks = 0
    /\ scans = <<>>
    /\ scan_state = <<>>
    /\ evicted = <<>>
    /\ lateActs = {}

\* Actor::started for RegistryScanner (scanner.rs:65-68): one ScanRepo at
\* once, and the interval timer armed.
ScannerStarted ==
    /\ ~started
    /\ started' = TRUE
    /\ pending' = pending + 1
    /\ UNCHANGED <<nTicks, scans, scan_state, evicted, lateActs, varsCache, varsCycle, varsGraph, varsServe, varsPlugins>>

\* The interval fires (scanner.rs:67): ctx.notify(ScanRepo {}).
IntervalTick ==
    /\ started
    /\ nTicks < MaxTicks
    /\ nTicks' = nTicks + 1
    /\ pending' = pending + 1
    /\ UNCHANGED <<started, scans, scan_state, evicted, lateActs, varsCache, varsCycle, varsGraph, varsServe, varsPlugins>>

\* Handler<ScanRepo>::handle (scanner.rs:74-87).
HandleScanRepo ==
    /\ pending > 0
    /\ pending' = pending - 1
    /\ LET full == Len(scans) >= MAX_REPO_SCANS
           i == PopIndex(scans)
           oldest == scans[i]
           kept == IF full
                   THEN [j \in 1..(Len(scans) - 1) |-> IF j < i THEN scans[j] ELSE scans[j + 1]]
                   ELSE scans
           id == Len(scan_state) + 1
       IN /\ scans' = Append(kept, id)
          /\ scan_state' = [s \in 1..id |->
                               IF s = id THEN "auth"
                               ELSE IF full /\ s = oldest THEN DropAddr(scan_state[s])
                               ELSE scan_state[s]]
          /\ evicted' = IF full THEN Append(evicted, oldest) ELSE evicted
    /\ UNCHANGED <<started, nTicks, lateActs, varsCache, varsCycle, varsGraph, varsServe, varsPlugins>>

\* The scan's authentication resolves (scanner.rs:110-113, 135).
ScanAuth(s) ==
    /\ scan_state[s] = "auth"
    /\ \E ok \in BOOLEAN :
          scan_state' = [scan_state EXCEPT ![s] = IF ok THEN "tags" ELSE "error"]
    /\ Acts(s)
    /\ UNCHANGED <<started, pending, nTicks, scans, evicted, varsCache, varsCycle, varsGraph, varsServe, varsPlugins>>

\* The tag stream ends and the scan sends its Insert (scanner.rs:115-133),
\* or the stream fails (135).
ScanTags(s) ==
    /\ scan_state[s] = "tags"
    /\ \/ /\ scan_state' = [scan_state EXCEPT ![s] = "insert"]
          /\ inbox' = Append(inbox, Insert("foo", None, s))
       \/ /\ scan_state' = [scan_state EXCEPT ![s] = "error"]
          /\ inbox' = inbox
    /\ Acts(s)
    /\ UNCHANGED <<started, pending, nTicks, scans, evicted>>
    /\ UNCHANGED <<no_release, tagged_release, reply, inserted, hitSeen, absorbed, nSent, varsCycle, varsGraph, varsServe, varsPlugins>>

\* The CacheManager takes an Insert from its mailbox; the reply resolves the
\* sending scan's future, if that scan is still waiting for it.
HandleInsertMsg ==
    /\ inbox # <<>>
    /\ Head(inbox).type = "Insert"
    /\ CacheInsert(Head(inbox))
    /\ LET s == Head(inbox).from
       IN scan_state' = IF s # 0 /\ scan_state[s] = "insert"
                        THEN [scan_state EXCEPT ![s] = "done"]
                        ELSE scan_state
    /\ UNCHANGED <<started, pending, nTicks, scans, evicted, lateActs, varsCycle, varsGraph, varsServe, varsPlugins>>

(***************************************************************************)
(* registry.rs: manifests, layers, metadata extraction.                    *)
(***************************************************************************)
\* The free-form metadata map of the release of version v, as in
\* expected_releases (tests/net/quay_io/mod.rs:21-33): one label for 0.0.1.
Labels(v) == IF v = 1 THEN {<<"kind", "test">>} ELSE {}

\* release::Metadata as far as the graph reads it.
Meta(v, prev, nxt) ==
    [version |-> v, previous |-> prev, next |-> nxt, metadata |-> Labels(v)]

\* registry.rs:255
MetadataFilename == "release-manifests/release-metadata"

\* A tar entry: its path and what serde_json makes of its contents
\* (None: not a Metadata document).
Entry(path, parsed) == [path |-> path, parsed |-> parsed]

\* The layer blobs of the repository, by digest.
Digests == {"d0", "d1", "d2", "d3"}

Blob(d) ==
    CASE d = "d0" -> <<Entry("etc/os-release", None)>>
      [] d = "d1" -> <<Entry(MetadataFilename, Some(Meta(1, <<>>, <<>>)))>>
      [] d = "d2" -> <<Entry("etc/os-release", None),
                       Entry(MetadataFilename, Some(Meta(2, <<1>>, <<>>)))>>
      [] OTHER    -> <<Entry(MetadataFilename, None)>>

\* assemble_metadata (registry.rs:342-371): the first entry whose path is the
\* metadata file, parsed; None stands for each Err.
AssembleMetadata(blob) ==
    LET hits == {i \in 1..Len(blob) : blob[i].path = MetadataFilename}
    IN IF hits = {} THEN None
       ELSE blob[CHOOSE i \in hits : \A k \in hits : i <= k].parsed

\* The tagged manifests of the registry: the media type has_manifest reports
\* and the layers get_layers returns, in the manifest's order.
TagNames == {"a", "b", "c", "e", "f", "g", "h", "n", "u", "z"}

Manifest(tag) ==
    CASE tag = "a" -> [kind |-> "ManifestV2S2", layers |-> <<"d1", "d0">>]
      [] tag = "b" -> [kind |-> "ManifestV2S1Signed", layers |-> <<"d2", "d3">>]
      [] tag = "c" -> [kind |-> "ManifestV2S2", layers |-> <<"d1", "d0">>]
      [] tag = "e" -> [kind |-> "ManifestV2S2", layers |-> <<"d3", "d0">>]
      [] tag = "f" -> [kind |-> "ManifestV2S1Signed", layers |-> <<"d0">>]
      [] tag = "g" -> [kind |-> "ManifestV2S2", layers |-> <<"d0", "d2", "d1">>]
      [] tag = "h" -> [kind |-> "ManifestV2S1Signed", layers |-> <<"d1", "d3", "d2", "d0">>]
      [] tag = "n" -> [kind |-> "None", layers |-> <<"d1">>]
      [] tag = "z" -> [kind |-> "ManifestV2S2", layers |-> <<>>]
      [] OTHER     -> [kind |-> "ManifestList", layers |-> <<"d1">>]

Reverse(q) == [i \in 1..Len(q) |-> q[Len(q) + 1 - i]]

\* get_layer_digests (registry.rs:295-317).
GetLayerDigestsUnreversed(kind, layers) ==
    IF kind \in {"ManifestV2S1Signed", "ManifestV2S2"}
    THEN [ok |-> TRUE, digests |-> layers]
    ELSE [ok |-> FALSE, digests |-> <<>>]

GetLayerDigests(kind, layers) ==
    IF kind \in {"ManifestV2S1Signed", "ManifestV2S2"}
    THEN [ok |-> TRUE, digests |-> Reverse(layers)]
    ELSE [ok |-> FALSE, digests |-> <<>>]

\* DefaultHasher over the Vec<String> of digests (registry_scanner.rs:120-124,
\* 147-151): a value computed from the length and the digests in order.  The
\* code's hash has 64 bits; 16 are kept here, which no digest list of the
\* model exhausts.
DigestCode(d) == CASE d = "d0" -> 1 [] d = "d1" -> 2 [] d = "d2" -> 3 [] OTHER -> 4

RECURSIVE HashFrom(_, _)
HashFrom(h, q) ==
    IF q = <<>> THEN h
    ELSE HashFrom((h * 31 + DigestCode(Head(q))) % 65536, Tail(q))

TagHash(digests) == HashFrom(Len(digests), digests)

\* registry.rs:267 format!("{}/{}:{}", registry_host, repo, &tag)
Host == "quay.io"
Repo == "org/repo"
Pullspec(tag) == Host \o "/" \o Repo \o ":" \o tag

\* registry::Release (registry.rs:31-35).
Release(tag, metadata) == [source |-> Pullspec(tag), metadata |-> metadata]

(***************************************************************************)
(* graph.rs: create_graph, over cincinnati::Graph.                         *)
(***************************************************************************)
\* cincinnati::Release: Concrete (registry.rs:37-45) or Abstract.
Concrete(rel) ==
    [kind |-> "Concrete", version |-> rel.metadata.version, payload |-> rel.source,
     metadata |-> rel.metadata.metadata]
Abstract(v) == [kind |-> "Abstract", version |-> v, payload |-> "", metadata |-> {}]

\* Graph::default(): the nodes in insertion order, the edges as pairs of
\* node indices in insertion order.
EmptyGraph == [nodes |-> <<>>, edges |-> <<>>]

\* Graph::find_by_version: the index of the node, 0 for none.
FindByVersion(g, v) ==
    LET hits == {i \in 1..Len(g.nodes) : g.nodes[i].version = v}
    IN IF hits = {} THEN 0 ELSE CHOOSE i \in hits : \A k \in hits : i <= k

\* Graph::add_release: a new node, or the Abstract node of that version
\* promoted in place (its index, and so its edges, kept); an error when the
\* version is there already otherwise.
AddReleaseReplacing(g, node) ==
    LET i == FindByVersion(g, node.version)
    IN IF i = 0
       THEN [ok |-> TRUE, graph |-> [g EXCEPT !.nodes = Append(@, node)],
             id |-> Len(g.nodes) + 1, err |-> ""]
       ELSE [ok |-> TRUE, graph |-> [g EXCEPT !.nodes[i] = node], id |-> i, err |-> ""]

AddReleaseNoPromotion(g, node) ==
    LET i == FindByVersion(g, node.version)
    IN IF i = 0
       THEN [ok |-> TRUE, graph |-> [g EXCEPT !.nodes = Append(@, node)],
             id |-> Len(g.nodes) + 1, err |-> ""]
       ELSE IF g.nodes[i].kind = "Abstract" /\ node.kind = "Concrete"
       THEN [ok |-> TRUE, graph |-> g, id |-> i, err |-> ""]
       ELSE [ok |-> FALSE, graph |-> g, id |-> 0, err |-> "DuplicateVersion"]

AddRelease(g, node) ==
    LET i == FindByVersion(g, node.version)
    IN IF i = 0
       THEN [ok |-> TRUE, graph |-> [g EXCEPT !.nodes = Append(@, node)],
             id |-> Len(g.nodes) + 1, err |-> ""]
       ELSE IF g.nodes[i].kind = "Abstract" /\ node.kind = "Concrete"
       THEN [ok |-> TRUE, graph |-> [g EXCEPT !.nodes[i] = node], id |-> i, err |-> ""]
       ELSE [ok |-> FALSE, graph |-> g, id |-> 0, err |-> "DuplicateVersion"]

\* Graph::add_transition: the edge, added once; an edge that is there already
\* and an edge from a node to itself are not added, and neither is an error.
AddTransitionAlways(g, from, to) ==
    [ok |-> TRUE, graph |-> [g EXCEPT !.edges = Append(@, <<from, to>>)], err |-> ""]

AddTransition(g, from, to) ==
    IF from = to \/ \E k \in 1..Len(g.edges) : g.edges[k] = <<from, to>>
    THEN [ok |-> TRUE, graph |-> g, err |-> ""]
    ELSE [ok |-> TRUE, graph |-> [g EXCEPT !.edges = Append(@, <<from, to>>)], err |-> ""]

\* graph.rs:73-81 (forward = FALSE) and 83-91 (forward = TRUE): the edges of
\* one release to the versions it names.
RECURSIVE AddVersionEdgesNoLookup(_, _, _, _)
AddVersionEdgesNoLookup(g, current, versions, forward) ==
    IF versions = <<>> THEN [ok |-> TRUE, graph |-> g, err |-> ""]
    ELSE LET added == AddRelease(g, Abstract(Head(versions)))
         IN IF ~added.ok THEN [ok |-> FALSE, graph |-> g, err |-> added.err]
            ELSE LET edge == IF forward THEN AddTransition(added.graph, current, added.id)
                             ELSE AddTransition(added.graph, added.id, current)
                 IN IF ~edge.ok THEN [ok |-> FALSE, graph |-> g, err |-> edge.err]
                    ELSE AddVersionEdgesNoLookup(edge.graph, current, Tail(versions), forward)

RECURSIVE AddVersionEdgesForward(_, _, _, _)
AddVersionEdgesForward(g, current, versions, forward) ==
    IF versions = <<>> THEN [ok |-> TRUE, graph |-> g, err |-> ""]
    ELSE LET v == Head(versions)
             found == FindByVersion(g, v)
             added == IF found # 0 THEN [ok |-> TRUE, graph |-> g, id |-> found, err |-> ""]
                      ELSE AddRelease(g, Abstract(v))
         IN IF ~added.ok THEN [ok |-> FALSE, graph |-> g, err |-> added.err]
            ELSE LET edge == AddTransition(added.graph, current, added.id)
                 IN IF ~edge.ok THEN [ok |-> FALSE, graph |-> g, err |-> edge.err]
                    ELSE AddVersionEdgesForward(edge.graph, current, Tail(versions), forward)

RECURSIVE AddVersionEdges(_, _, _, _)
AddVersionEdges(g, current, versions, forward) ==
    IF versions = <<>> THEN [ok |-> TRUE, graph |-> g, err |-> ""]
    ELSE LET v == Head(versions)
             found == FindByVersion(g, v)
             added == IF found # 0 THEN [ok |-> TRUE, graph |-> g, id |-> found, err |-> ""]
                      ELSE AddRelease(g, Abstract(v))
         IN IF ~added.ok THEN [ok |-> FALSE, graph |-> g, err |-> added.err]
            ELSE LET edge == IF forward THEN AddTransition(added.graph, current, added.id)
                             ELSE AddTransition(added.graph, added.id, current)
                 IN IF ~edge.ok THEN [ok |-> FALSE, graph |-> g, err |-> edge.err]
                    ELSE AddVersionEdges(edge.graph, current, Tail(versions), forward)

\* graph.rs:65-94: try_for_each over the releases.
RECURSIVE AddReleases(_, _)
AddReleases(g, releases) ==
    IF releases = <<>> THEN [ok |-> TRUE, graph |-> g, err |-> ""]
    ELSE LET release == Head(releases)
             current == AddRelease(g, Concrete(release))
         IN IF ~current.ok THEN [ok |-> FALSE, graph |-> g, err |-> current.err]
            ELSE LET prev == AddVersionEdges(current.graph, current.id,
                                             release.metadata.previous, FALSE)
                 IN IF ~prev.ok THEN [ok |-> FALSE, graph |-> g, err |-> prev.err]
                    ELSE LET nxt == AddVersionEdges(prev.graph, current.id,
                                                    release.metadata.next, TRUE)
                         IN IF ~nxt.ok THEN [ok |-> FALSE, graph |-> g, err |-> nxt.err]
                            ELSE AddReleases(nxt.graph, Tail(releases))

\* create_graph (graph.rs:51-95).
CreateGraphEmptyFails(releases) ==
    IF releases = <<>> THEN [ok |-> FALSE, graph |-> EmptyGraph, err |-> "Empty"]
    ELSE AddReleases(EmptyGraph, releases)

CreateGraph(releases) ==
    IF releases = <<>> THEN [ok |-> TRUE, graph |-> EmptyGraph, err |-> ""]
    ELSE AddReleases(EmptyGraph, releases)

\* serde_json::to_string(&graph): the nodes in order, then the edges as
\* pairs of node indices.
Serialize(g) == "{nodes:" \o ToString(g.nodes) \o ",edges:" \o ToString(g.edges) \o "}"

(***************************************************************************)
(* registry_scanner.rs: the RegistryScanner and the cycles it spawns.      *)
(***************************************************************************)
\* Where a cycle's future (registry_scanner.rs:108-169) stands:
\*   "auth"      authenticate_client is outstanding (110)
\*   "tags"      the tag listing is outstanding (111-115)
\*   "manifest"  get_manifest_and_layers of tag i is outstanding (116-118)
\*   "query"     QueryCache for tag i was sent, the reply is awaited (119-132)
\*   "blob"      find_first_release awaits the blob of layer j of tag i (138-144)
\*   "update"    UpdateCache for tag i was sent, the reply is awaited (146-161)
\*   "done"      the future resolved Ok and update_state has run (166-168)
\*   "failed"    the future resolved Err, which was logged (169)
\* `warm` tells that a cycle had resolved Ok before this one was spawned.
NewCycle == [phase |-> "auth", cause |-> "", tags |-> <<>>, i |-> 0, j |-> 0,
             found |-> None, releases |-> <<>>,
             warm |-> \E c \in DOMAIN cycles : cycles[c].phase = "done"]

InFlight == {c \in 1..Len(cycles) : cycles[c].phase \notin {"done", "failed"}}

\* The repositories scanned.
Repos == {<<>>, <<"a", "b">>, <<"e", "a">>, <<"u", "b">>, <<"a", "c">>, <<"e", "f">>}

\* The tag a cycle is working on, and its layer digests.
TagOf(c) == cycles[c].tags[cycles[c].i]
DigestsOf(c) ==
    GetLayerDigests(Manifest(TagOf(c)).kind, Manifest(TagOf(c)).layers).digests

InitRegistryScanner ==
    /\ rs_state = "created"
    /\ rs_pending = 0
    /\ rs_ticks = 0
    /\ cycles = <<>>
    /\ cache = [h \in {} |-> None]
    /\ json = ""
    /\ writers = <<>>

\* Actor::started (registry_scanner.rs:58-65).
RsStarted ==
    /\ rs_state = "created"
    /\ rs_state' = "running"
    /\ rs_pending' = rs_pending + 1
    /\ UNCHANGED <<regTags, rs_ticks, cycles, cache, json, writers, varsCache, varsScanner, varsGraph, varsServe, varsPlugins>>

\* The interval fires (registry_scanner.rs:64).
RsTickWhenIdle(limit) ==
    /\ rs_state = "running"
    /\ rs_ticks + 1 < limit
    /\ rs_pending = 0
    /\ \A c \in DOMAIN cycles : cycles[c].phase \in {"done", "failed"}
    /\ rs_ticks' = rs_ticks + 1
    /\ rs_pending' = rs_pending + 1
    /\ UNCHANGED <<regTags, rs_state, cycles, cache, json, writers, varsCache, varsScanner, varsGraph, varsServe, varsPlugins>>

RsTick(limit) ==
    /\ rs_state = "running"
    /\ rs_ticks + 1 < limit
    /\ rs_ticks' = rs_ticks + 1
    /\ rs_pending' = rs_pending + 1
    /\ UNCHANGED <<regTags, rs_state, cycles, cache, json, writers, varsCache, varsScanner, varsGraph, varsServe, varsPlugins>>

\* Handler<ScanRepo>::handle (registry_scanner.rs:78-173): the cycle's future
\* is built and spawned; nothing limits how many are spawned (171-172).
RsHandleScanRepo ==
    /\ rs_state = "running"
    /\ rs_pending > 0
    /\ rs_pending' = rs_pending - 1
    /\ cycles' = Append(cycles, NewCycle)
    /\ UNCHANGED <<regTags, rs_state, rs_ticks, cache, json, writers, varsCache, varsScanner, varsGraph, varsServe, varsPlugins>>

\* The cache's answer to QueryCache(h), as cache_release reads its map
\* (registry.rs:181-184): a hit carries the cached Option<Release>, a None
\* included.
QueryCacheNoneIsMiss(ch, h) ==
    IF h \in DOMAIN ch /\ ch[h] # None THEN [hit |-> TRUE, release |-> ch[h]]
    ELSE [hit |-> FALSE, release |-> None]

QueryCache(ch, h) ==
    IF h \in DOMAIN ch THEN [hit |-> TRUE, release |-> ch[h]]
    ELSE [hit |-> FALSE, release |-> None]

\* The cache after UpdateCache { tag_hash, release }, as cache_release writes
\* its map (registry.rs:198).
UpdateCacheSomeOnly(ch, h, release) ==
    IF release = None THEN ch ELSE MapInsert(ch, h, release)

UpdateCache(ch, h, release) == MapInsert(ch, h, release)

\* filter_map(|release| release) followed by collect (registry_scanner.rs:
\* 162-163): what one tag's result adds to the releases collected so far.
FilterMapPrepending(releases, found) ==
    IF found # None THEN <<found[1]>> \o releases ELSE releases

FilterMap(releases, found) ==
    IF found # None THEN Append(releases, found[1]) ELSE releases

\* map_err(|e, _act, _ctx| error!("{}", e)) (registry_scanner.rs:169): what
\* a cycle's error does to the actor.
OnScanErrorStops(st) == "stopped"

OnScanError(st) == st

\* The cycle's future resolves Err.
Fail(c, cause) ==
    /\ cycles' = [cycles EXCEPT ![c].phase = "failed", ![c].cause = cause]
    /\ rs_state' = OnScanError(rs_state)
    /\ UNCHANGED <<cache, json, writers>>

\* RegistryScanner::update_state (registry_scanner.rs:34-52): the new json.
UpdateStateAlways(old, releases) == Serialize(CreateGraph(releases).graph)

UpdateState(old, releases) ==
    LET built == CreateGraph(releases)
    IN IF built.ok THEN Serialize(built.graph) ELSE old

\* The stream has ended: collect resolves and update_state runs on the actor
\* (registry_scanner.rs:162-168).
Collect(c, releases) ==
    /\ cycles' = [cycles EXCEPT ![c].phase = "done", ![c].releases = releases,
                                ![c].found = None,
                                ![c].cause = IF CreateGraph(releases).ok THEN "" ELSE "graph"]
    /\ json' = UpdateState(json, releases)
    /\ writers' = IF CreateGraph(releases).ok THEN Append(writers, c) ELSE writers
    /\ rs_state' = rs_state

\* authenticate_client resolves (registry_scanner.rs:110, registry.rs:64-92).
CycleAuth(c) ==
    /\ cycles[c].phase = "auth"
    /\ \/ /\ cycles' = [cycles EXCEPT ![c].phase = "tags"]
          /\ UNCHANGED <<rs_state, cache, json, writers>>
       \/ Fail(c, "auth")
    /\ UNCHANGED <<regTags, rs_pending, rs_ticks, varsCache, varsScanner, varsGraph, varsServe, varsPlugins>>

\* The tag listing arrives (registry_scanner.rs:111-115, registry.rs:208-220).
CycleTags(c) ==
    /\ cycles[c].phase = "tags"
    /\ \/ IF regTags = <<>>
          THEN Collect(c, <<>>) /\ cache' = cache
          ELSE /\ cycles' = [cycles EXCEPT ![c].phase = "manifest", ![c].i = 1,
                                           ![c].tags = regTags]
               /\ UNCHANGED <<rs_state, cache, json, writers>>
       \/ Fail(c, "tags")
    /\ UNCHANGED <<regTags, rs_pending, rs_ticks, varsCache, varsScanner, varsGraph, varsServe, varsPlugins>>

\* get_manifest_and_layers resolves for tag i (registry_scanner.rs:116-118,
\* registry.rs:223-235); on success the QueryCache is sent (119-132).
CycleManifest(c) ==
    /\ cycles[c].phase = "manifest"
    /\ \/ IF GetLayerDigests(Manifest(TagOf(c)).kind, Manifest(TagOf(c)).layers).ok
          THEN /\ cycles' = [cycles EXCEPT ![c].phase = "query"]
               /\ UNCHANGED <<rs_state, cache, json, writers>>
          ELSE Fail(c, "kind")
       \/ Fail(c, "manifest")
    /\ UNCHANGED <<regTags, rs_pending, rs_ticks, varsCache, varsScanner, varsGraph, varsServe, varsPlugins>>

\* The cache answers the QueryCache (registry_scanner.rs:133-145): a hit is
\* passed on, a miss starts find_first_release (registry.rs:237-293).
CycleQuery(c) ==
    /\ cycles[c].phase = "query"
    /\ LET cached == QueryCache(cache, TagHash(DigestsOf(c)))
       IN cycles' = IF cached.hit
                    THEN [cycles EXCEPT ![c].phase = "update", ![c].found = cached.release]
                    ELSE IF DigestsOf(c) = <<>>
                    THEN [cycles EXCEPT ![c].phase = "update", ![c].found = None]
                    ELSE [cycles EXCEPT ![c].phase = "blob", ![c].j = 1]
    /\ UNCHANGED <<regTags, rs_state, rs_pending, rs_ticks, cache, json, writers,
                   varsCache, varsScanner, varsGraph, varsServe, varsPlugins>>

\* get_blob resolves for layer j (registry.rs:250-278): the first layer with
\* metadata ends the search (take(1), 281-284), a layer without is passed
\* over, a failed fetch fails the future.
CycleBlobTriesAll(c) ==
    /\ cycles[c].phase = "blob"
    /\ \/ LET m == AssembleMetadata(Blob(DigestsOf(c)[cycles[c].j]))
              found == IF m # None THEN Some(Release(TagOf(c), m[1])) ELSE cycles[c].found
          IN /\ cycles' =
                   IF cycles[c].j < Len(DigestsOf(c))
                   THEN [cycles EXCEPT ![c].j = @ + 1, ![c].found = found]
                   ELSE [cycles EXCEPT ![c].phase = "update", ![c].j = 0, ![c].found = found]
             /\ UNCHANGED <<rs_state, cache, json, writers>>
       \/ Fail(c, "blob")
    /\ UNCHANGED <<regTags, rs_pending, rs_ticks, varsCache, varsScanner, varsGraph, varsServe, varsPlugins>>

CycleBlob(c) ==
    /\ cycles[c].phase = "blob"
    /\ \/ LET m == AssembleMetadata(Blob(DigestsOf(c)[cycles[c].j]))
          IN /\ cycles' =
                   IF m # None
                   THEN [cycles EXCEPT ![c].phase = "update", ![c].j = 0,
                                       ![c].found = Some(Release(TagOf(c), m[1]))]
                   ELSE IF cycles[c].j < Len(DigestsOf(c))
                   THEN [cycles EXCEPT ![c].j = @ + 1]
                   ELSE [cycles EXCEPT ![c].phase = "update", ![c].j = 0, ![c].found = None]
             /\ UNCHANGED <<rs_state, cache, json, writers>>
       \/ Fail(c, "blob")
    /\ UNCHANGED <<regTags, rs_pending, rs_ticks, varsCache, varsScanner, varsGraph, varsServe, varsPlugins>>

\* The cache handles the UpdateCache and replies (registry_scanner.rs:146-163):
\* the release, if any, is collected and the stream goes on to the next tag.
CycleUpdate(c) ==
    /\ cycles[c].phase = "update"
    /\ cache' = UpdateCache(cache, TagHash(DigestsOf(c)), cycles[c].found)
    /\ LET releases == FilterMap(cycles[c].releases, cycles[c].found)
       IN IF cycles[c].i < Len(cycles[c].tags)
          THEN /\ cycles' = [cycles EXCEPT ![c].phase = "manifest", ![c].i = @ + 1,
                                           ![c].found = None, ![c].releases = releases]
               /\ UNCHANGED <<rs_state, json, writers>>
          ELSE Collect(c, releases)
    /\ UNCHANGED <<regTags, rs_pending, rs_ticks, varsCache, varsScanner, varsGraph, varsServe, varsPlugins>>

\* The release lists that cycles hand to update_state: releases of versions
\* 1..3 whose previous and next name versions before them, after them, their
\* own, and one (4) that no release has.
Versions == 1..3

Links == {<<<<>>, <<>>>>, <<<<1>>, <<>>>>, <<<<>>, <<2>>>>, <<<<1, 2>>, <<>>>>, <<<<2>>, <<4>>>>}

VersionTag(v) == "v" \o ToString(v)

GraphReleases == {Release(VersionTag(v), Meta(v, l[1], l[2])) : v \in Versions, l \in Links}

ReleaseLists == UNION {[1..n -> GraphReleases] : n \in 0..MaxInput}

\* The lists of the cycle before: one that publishes a graph of one node, the
\* empty one, and one that create_graph refuses.
PlainRelease == Release(VersionTag(1), Meta(1, <<>>, <<>>))

FirstLists == {<<PlainRelease>>, <<>>, <<PlainRelease, PlainRelease>>}

NotBuilt == [done |-> FALSE, ok |-> FALSE, graph |-> EmptyGraph, err |-> ""]

InitGraphIdle ==
    /\ g_todo = <<>>
    /\ g_releases = <<>>
    /\ g_built = NotBuilt
    /\ g_prior = ""

\* update_state runs on the actor with the releases a cycle collected
\* (registry_scanner.rs:166-168, 34-52).
GraphUpdateState ==
    /\ g_todo # <<>>
    /\ g_todo' = Tail(g_todo)
    /\ g_releases' = Head(g_todo)
    /\ g_built' = LET r == CreateGraph(Head(g_todo))
                  IN [done |-> TRUE, ok |-> r.ok, graph |-> r.graph, err |-> r.err]
    /\ g_prior' = json
    /\ json' = UpdateState(json, Head(g_todo))
    /\ UNCHANGED <<regTags, rs_state, rs_pending, rs_ticks, cycles, cache, writers,
                   varsCache, varsScanner, varsServe, varsPlugins>>

(***************************************************************************)
(* graph.rs: the HTTP handler and the lock around the snapshot.            *)
(***************************************************************************)
\* cincinnati::CONTENT_TYPE.
CONTENT_TYPE == "application/vnd.redhat.cincinnati.v1+json"

\* What req.headers().get(header::ACCEPT) returns for the requests received.
AcceptValues ==
    {None, Some(CONTENT_TYPE), Some("application/json"), Some("*/*"),
     Some("Application/vnd.redhat.cincinnati.v1+json"), Some(CONTENT_TYPE \o ", */*")}

NoResponse == [accept |-> None, status |-> 0, content_type |-> "", body |-> ""]

\* The guard of the first match arm of index (graph.rs:24-25).
AcceptableAny(accept) == accept # None

Acceptable(accept) == accept = Some(CONTENT_TYPE)

\* index (graph.rs:23-36): the response to a request whose Accept is
\* `accept` when the snapshot read holds `snapshot`.
IndexResponseNoBody(accept, snapshot) ==
    IF Acceptable(accept)
    THEN [accept |-> accept, status |-> 200, content_type |-> CONTENT_TYPE, body |-> ""]
    ELSE [accept |-> accept, status |-> 406, content_type |-> "", body |-> ""]

IndexResponse(accept, snapshot) ==
    IF Acceptable(accept)
    THEN [accept |-> accept, status |-> 200, content_type |-> CONTENT_TYPE, body |-> snapshot]
    ELSE [accept |-> accept, status |-> 406, content_type |-> "", body |-> ""]

\* RwLock::read (graph.rs:27-30): granted while no writer holds the lock.
CanReadAlways(writing) == TRUE

CanRead(writing) == writing = None

\* RwLock::write (registry_scanner.rs:42-46): granted while nobody holds the
\* lock.
CanWrite(writing, readers) == writing = None /\ readers = {}

\* The String behind the lock while `new` is being assigned over `old`.
Torn(old, new) == "<" \o old \o "|" \o new \o ">"

InitServeIdle ==
    /\ rw_writing = None
    /\ rw_readers = {}
    /\ http_resp = NoResponse
    /\ nReqs = 0
    /\ handed = {}

\* A request arrives at GET /v1/graph (main.rs:98, graph.rs:23-25): one that
\* is not acceptable is answered at once (34), an acceptable one takes the
\* read lock (27-30).
HttpRequest ==
    /\ nReqs < MaxRequests
    /\ nReqs' = nReqs + 1
    /\ \E accept \in AcceptValues :
          IF Acceptable(accept)
          THEN /\ CanRead(rw_writing)
               /\ rw_readers' = rw_readers \cup {[id |-> nReqs + 1, accept |-> accept]}
               /\ http_resp' = http_resp
          ELSE /\ http_resp' = IndexResponse(accept, json)
               /\ rw_readers' = rw_readers
    /\ UNCHANGED <<rw_writing, handed, varsCache, varsScanner, varsCycle, varsGraph, varsPlugins>>

\* A handler that holds the read lock clones the snapshot into the body of
\* its response and lets the lock go (graph.rs:26-32).
HttpRespond ==
    /\ \E r \in rw_readers :
          /\ rw_readers' = rw_readers \ {r}
          /\ http_resp' = IndexResponse(r.accept, json)
    /\ UNCHANGED <<rw_writing, nReqs, handed, varsCache, varsScanner, varsCycle, varsGraph,
                   varsPlugins>>

\* update_state (registry_scanner.rs:34-52) as the server's threads see it:
\* when create_graph returns Ok the write lock is taken and the assignment
\* begins; when it returns Err the lock is not touched.
ServeUpdateState ==
    /\ g_todo # <<>>
    /\ LET built == CreateGraph(Head(g_todo))
       IN IF built.ok
          THEN /\ CanWrite(rw_writing, rw_readers)
               /\ rw_writing' = Some(Serialize(built.graph))
               /\ json' = Torn(json, Serialize(built.graph))
          ELSE /\ rw_writing = None
               /\ UNCHANGED <<rw_writing, json>>
    /\ g_todo' = Tail(g_todo)
    /\ UNCHANGED <<g_releases, g_built, g_prior, rw_readers, http_resp, nReqs, handed>>
    /\ UNCHANGED <<regTags, rs_state, rs_pending, rs_ticks, cycles, cache, writers,
                   varsCache, varsScanner, varsPlugins>>

\* The assignment is complete and the write lock is let go
\* (registry_scanner.rs:42-46).
ServeUpdateDone ==
    /\ rw_writing # None
    /\ json' = rw_writing[1]
    /\ handed' = handed \cup {rw_writing[1]}
    /\ rw_writing' = None
    /\ UNCHANGED <<rw_readers, http_resp, nReqs, varsGraph>>
    /\ UNCHANGED <<regTags, rs_state, rs_pending, rs_ticks, cycles, cache, writers,
                   varsCache, varsScanner, varsPlugins>>

\* The release lists of the cycles that publish while the server answers.
ServeLists == FirstLists \cup {<<PlainRelease, Release(VersionTag(2), Meta(2, <<1>>, <<>>))>>}

(***************************************************************************)
(* plugins/catalog.rs: configuration entries and the plugin catalog.       *)
(***************************************************************************)
\* toml::Value: a table, a string or an integer.
Str(s) == <<"str", s>>
Integer == <<"int", "1">>
Absent == <<"absent">>
ConfigKeys == {"name", "repository", "foo"}
Table(nameValue, repositoryValue, fooValue) ==
    LET full == [name |-> nameValue, repository |-> repositoryValue, foo |-> fooValue]
    IN <<"table", [k \in {key \in ConfigKeys : full[key] # Absent} |-> full[k]]>>

\* toml::Value::get with a string index: the entry of a table, None for a
\* key the table lacks and for a value that is no table.
TomlGet(value, key) ==
    IF value[1] = "table" /\ key \in DOMAIN value[2] THEN Some(value[2][key]) ELSE None

\* toml::Value::as_str.
AsStr(value) == IF value[1] = "str" THEN Some(value[2]) ELSE None

CONFIG_PLUGIN_NAME_KEY == "name"

\* The PLUGIN_NAME of the plugins the catalog lists (catalog.rs:35-42).
NodeRemovePluginName == "node-remove"
QuayMetadataFetchPluginName == "quay-metadata"
PluginNames ==
    {"assign-wariness", "channel-filter", "edge-add-remove", NodeRemovePluginName,
     QuayMetadataFetchPluginName, "cincinnati-graph-fetch"}

DEFAULT_QUAY_REPOSITORY == "openshift"

Ok(value) == [ok |-> TRUE, value |-> Some(value), err |-> ""]
Err(message) == [ok |-> FALSE, value |-> None, err |-> message]

\* <Plugin>::deserialize_config: the plugin validates its own fields and
\* fills in defaults; here the repository of the Quay metadata plugin.
PluginDeserialize(plugin, cfg) ==
    IF plugin = QuayMetadataFetchPluginName
    THEN LET repository == TomlGet(cfg, "repository")
         IN IF repository = None
            THEN Ok([name |-> plugin, own |-> <<<<"repository", DEFAULT_QUAY_REPOSITORY>>>>])
            ELSE IF AsStr(repository[1]) = None
                 THEN Err("invalid field")
                 ELSE Ok([name |-> plugin, own |-> <<<<"repository", AsStr(repository[1])[1]>>>>])
    ELSE Ok([name |-> plugin, own |-> <<>>])

\* PluginSettings::build_plugin (catalog.rs:20-23) of a settings value.
BuildPlugin(settings) == Ok([plugin |-> settings.name, settings |-> settings.own])

\* deserialize_config (catalog.rs:26-45).
DeserializeConfigNameOptional(cfg) ==
    LET entry == TomlGet(cfg, CONFIG_PLUGIN_NAME_KEY)
        name == IF entry = None THEN Some(NodeRemovePluginName) ELSE AsStr(entry[1])
    IN IF name = None THEN PluginDeserialize(NodeRemovePluginName, cfg)
       ELSE IF name[1] \in PluginNames THEN PluginDeserialize(name[1], cfg)
       ELSE Err("unknown plugin '" \o name[1] \o "'")

DeserializeConfigLenient(cfg) ==
    LET entry == TomlGet(cfg, CONFIG_PLUGIN_NAME_KEY)
    IN IF entry = None THEN Err("missing plugin name")
       ELSE IF AsStr(entry[1]) = None THEN Err("invalid plugin name value")
       ELSE IF AsStr(entry[1])[1] \in PluginNames
            THEN PluginDeserialize(AsStr(entry[1])[1], cfg)
            ELSE PluginDeserialize(NodeRemovePluginName, cfg)

DeserializeConfig(cfg) ==
    LET entry == TomlGet(cfg, CONFIG_PLUGIN_NAME_KEY)
    IN IF entry = None THEN Err("missing plugin name")
       ELSE IF AsStr(entry[1]) = None THEN Err("invalid plugin name value")
       ELSE IF AsStr(entry[1])[1] \in PluginNames
            THEN PluginDeserialize(AsStr(entry[1])[1], cfg)
            ELSE Err("unknown plugin '" \o AsStr(entry[1])[1] \o "'")

\* The configuration entries the loader is given.
NameValues ==
    {Absent, Integer} \cup {Str(n) : n \in PluginNames}
    \cup {Str("does-not-exist"), Str("Node-Remove"), Str("quay-metadata-fetch"), Str("")}
RepositoryValues == {Absent, Str("mytest"), Integer}
FooValues == {Absent, Str("bar")}
Configs ==
    {Table(n, r, f) : n \in NameValues, r \in RepositoryValues, f \in FooValues}
    \cup {Str(NodeRemovePluginName), Integer}

InitPluginsIdle ==
    /\ p_cfg = None
    /\ p_settings = None
    /\ p_plugin = None

InitPlugins ==
    /\ p_cfg \in Configs
    /\ p_settings = None
    /\ p_plugin = None

\* The loader deserializes the entry (catalog.rs:26-45).
LoadConfig ==
    /\ p_cfg # None
    /\ p_settings = None
    /\ p_settings' = Some(DeserializeConfig(p_cfg))
    /\ UNCHANGED <<p_cfg, p_plugin, varsCache, varsScanner, varsCycle, varsGraph, varsServe>>

\* The settings build their plugin (catalog.rs:48-59, one element).
BuildPlugins ==
    /\ p_settings # None
    /\ p_settings[1].ok
    /\ p_plugin = None
    /\ p_plugin' = Some(BuildPlugin(p_settings[1].value[1]))
    /\ UNCHANGED <<p_cfg, p_settings, varsCache, varsScanner, varsCycle, varsGraph, varsServe>>

Init ==
    /\ InitCache /\ InitScanner /\ InitRegistryScanner /\ InitGraphIdle
    /\ InitServeIdle /\ InitPluginsIdle
    /\ regTags = <<>>

InitCycle ==
    /\ InitCache /\ InitScanner /\ InitRegistryScanner /\ InitGraphIdle
    /\ InitServeIdle /\ InitPluginsIdle
    /\ regTags \in Repos

InitGraph ==
    /\ InitCache /\ InitScanner /\ InitRegistryScanner /\ InitServeIdle /\ InitPluginsIdle
    /\ regTags = <<>>
    /\ g_todo \in {<<first, second>> : first \in FirstLists, second \in ReleaseLists}
    /\ g_releases = <<>>
    /\ g_built = NotBuilt
    /\ g_prior = ""

\* Repositories whose tags differ in the kind of their manifest and in
\* where among their layers the metadata is.
FindRepos ==
    {<<"a">>, <<"b">>, <<"e">>, <<"f">>, <<"g">>, <<"h">>, <<"n">>, <<"u">>, <<"z">>,
     <<"g", "h">>}

InitFind ==
    /\ InitCache /\ InitScanner /\ InitRegistryScanner /\ InitGraphIdle
    /\ InitServeIdle /\ InitPluginsIdle
    /\ regTags \in FindRepos

InitLoader ==
    /\ InitCache /\ InitScanner /\ InitRegistryScanner /\ InitGraphIdle /\ InitServeIdle
    /\ InitPlugins
    /\ regTags = <<>>

InitServe ==
    /\ InitCache /\ InitScanner /\ InitRegistryScanner /\ InitServeIdle /\ InitPluginsIdle
    /\ regTags = <<>>
    /\ g_todo \in {<<first, second>> : first \in ServeLists, second \in ServeLists}
    /\ g_releases = <<>>
    /\ g_built = NotBuilt
    /\ g_prior = ""

\* The cache under arbitrary clients.
NextCache ==
    \/ ClientSend /\ UNCHANGED <<varsScanner, varsCycle, varsGraph, varsServe, varsPlugins>>
    \/ HandleQueryMsg /\ UNCHANGED <<varsScanner, varsCycle, varsGraph, varsServe, varsPlugins>>
    \/ HandleInsertMsg

SpecCache == Init /\ [][NextCache]_vars

\* The binary: the scanner, its scans and the cache they write to.
NextScanner ==
    \/ ScannerStarted
    \/ IntervalTick
    \/ HandleScanRepo
    \/ \E s \in DOMAIN scan_state : ScanAuth(s)
    \/ \E s \in DOMAIN scan_state : ScanTags(s)
    \/ HandleInsertMsg

SpecScanner == Init /\ [][NextScanner]_vars

\* The library: the scanner of registry_scanner.rs and its cycles.
NextCycle ==
    \/ RsStarted
    \/ RsTick(MaxCycles)
    \/ RsHandleScanRepo
    \/ \E c \in DOMAIN cycles : CycleAuth(c)
    \/ \E c \in DOMAIN cycles : CycleTags(c)
    \/ \E c \in DOMAIN cycles : CycleManifest(c)
    \/ \E c \in DOMAIN cycles : CycleQuery(c)
    \/ \E c \in DOMAIN cycles : CycleBlob(c)
    \/ \E c \in DOMAIN cycles : CycleUpdate(c)

SpecCycle == InitCycle /\ [][NextCycle]_vars

\* The library under a burst of triggers against an empty repository.
NextBurst ==
    \/ RsStarted
    \/ RsTick(MAX_REPO_SCANS + 1)
    \/ RsHandleScanRepo
    \/ \E c \in DOMAIN cycles : CycleAuth(c)
    \/ \E c \in DOMAIN cycles : CycleTags(c)

SpecBurst == Init /\ [][NextBurst]_vars

\* update_state alone, on two release lists in a row.
NextGraph == GraphUpdateState

SpecGraph == InitGraph /\ [][NextGraph]_vars

\* The server answering requests while update_state publishes.
NextServe ==
    \/ HttpRequest
    \/ HttpRespond
    \/ ServeUpdateState
    \/ ServeUpdateDone

SpecServe == InitServe /\ [][NextServe]_vars

\* The library's cycles on repositories of one or two tags.
NextFind ==
    \/ RsStarted
    \/ RsTick(MaxFindCycles)
    \/ RsHandleScanRepo
    \/ \E c \in DOMAIN cycles : CycleAuth(c)
    \/ \E c \in DOMAIN cycles : CycleTags(c)
    \/ \E c \in DOMAIN cycles : CycleManifest(c)
    \/ \E c \in DOMAIN cycles : CycleQuery(c)
    \/ \E c \in DOMAIN cycles : CycleBlob(c)
    \/ \E c \in DOMAIN cycles : CycleUpdate(c)

SpecFind == InitFind /\ [][NextFind]_vars

\* The first tag of the repository is deleted: the listings get_tags
\* returns from now on (registry.rs:208-220) lack it; the cycles that have
\* their listing keep it.
DeleteTag ==
    /\ Len(regTags) >= 2
    /\ regTags' = Tail(regTags)
    /\ UNCHANGED <<rs_state, rs_pending, rs_ticks, cycles, cache, json, writers,
                   varsCache, varsScanner, varsGraph, varsServe, varsPlugins>>

\* Either program of the source tree: the binary's CacheManager under
\* arbitrary clients, or the library's cycles with their u64-keyed cache.
BinaryRuns == rs_state = "created" /\ regTags = <<>>
LibraryRuns == nSent = 0

NextReads ==
    \/ BinaryRuns /\ ClientSend
                  /\ UNCHANGED <<varsScanner, varsCycle, varsGraph, varsServe, varsPlugins>>
    \/ BinaryRuns /\ HandleQueryMsg
                  /\ UNCHANGED <<varsScanner, varsCycle, varsGraph, varsServe, varsPlugins>>
    \/ BinaryRuns /\ HandleInsertMsg
    \/ LibraryRuns /\ RsStarted
    \/ LibraryRuns /\ RsTick(MaxCycles)
    \/ RsHandleScanRepo
    \/ DeleteTag
    \/ \E c \in DOMAIN cycles : CycleAuth(c)
    \/ \E c \in DOMAIN cycles : CycleTags(c)
    \/ \E c \in DOMAIN cycles : CycleManifest(c)
    \/ \E c \in DOMAIN cycles : CycleQuery(c)
    \/ \E c \in DOMAIN cycles : CycleBlob(c)
    \/ \E c \in DOMAIN cycles : CycleUpdate(c)

SpecReads == InitCycle /\ [][NextReads]_vars

\* The plugin loader on one configuration entry.
NextPlugins ==
    \/ LoadConfig
    \/ BuildPlugins

SpecPlugins == InitLoader /\ [][NextPlugins]_vars

(***************************************************************************)
(* Claims about the cache (cache.rs), under SpecCache.                     *)
(***************************************************************************)
OtherTag(t) == CHOOSE u \in Tags : u # t

\* C1: when exactly one Insert(tag, v) has been handled before a Query(tag),
\* whatever was handled for other tags, the Query replies KnownTag(v); so
\* Insert(tag, None) then Query(tag) replies KnownTag(None), not VacantEntry.
C1_InsertThenQuery ==
    (reply.type = "Query" /\ Len(inserted[reply.tag]) = 1)
        => reply.cached = KnownTag(inserted[reply.tag][1])

\* A Query answered KnownTag(None) after the one Insert(tag, None), with an
\* Insert for the other tag handled as well.
C1_Witness ==
    /\ reply.type = "Query"
    /\ inserted[reply.tag] = <<None>>
    /\ reply.cached = KnownTag(None)
    /\ inserted[OtherTag(reply.tag)] # <<>>

\* C2: a Query(tag) replies VacantEntry exactly when no Insert for that tag
\* has been handled before it; Inserts for other tags make no difference.
C2_MissIffNoInsert ==
    reply.type = "Query"
        => (reply.cached = VacantEntry <=> inserted[reply.tag] = <<>>)

\* A Query answered VacantEntry while the other tag has a negative and a
\* positive Insert handled.
C2_Witness ==
    /\ reply.type = "Query"
    /\ reply.cached = VacantEntry
    /\ None \in Range(inserted[OtherTag(reply.tag)])
    /\ \E r \in Releases : Some(r) \in Range(inserted[OtherTag(reply.tag)])

\* C3: after Insert(tag, v1), ..., Insert(tag, vn) a Query(tag) replies
\* KnownTag(v1) or KnownTag(vn), never another value.
C3_FirstOrLastWins ==
    (reply.type = "Query" /\ inserted[reply.tag] # <<>>)
        => LET h == inserted[reply.tag]
           IN reply.cached \in {KnownTag(h[1]), KnownTag(h[Len(h)])}

\* C4: no tag is recorded both as a negative result (no_release) and as a
\* positive result (tagged_release).
C4_OneEntryPerKey == no_release \cap DOMAIN tagged_release = {}

\* C5: once a Query(tag) has replied KnownTag, a Query(tag) replies KnownTag
\* in every later state, whatever Inserts and Queries are handled meanwhile.
C5_Retained ==
    /\ \A t \in DOMAIN hitSeen : Cached(t).kind = "KnownTag"
    /\ (reply.type = "Query" /\ reply.tag \in DOMAIN hitSeen) => reply.cached.kind = "KnownTag"

\* A tag that was answered KnownTag, was then inserted again with another
\* value, and is now answered KnownTag once more.
C5_Witness ==
    \E t \in DOMAIN hitSeen :
        /\ reply.type = "Query" /\ reply.tag = t /\ reply.cached.kind = "KnownTag"
        /\ Len(inserted[t]) > hitSeen[t]
        /\ inserted[t][Len(inserted[t])] # inserted[t][1]

(***************************************************************************)
(* Claims about the scan cap (scanner.rs), under SpecScanner.              *)
(***************************************************************************)
\* C7: the scan evicted when MAX_REPO_SCANS scans are recorded is the oldest:
\* every evicted scan was started before every scan that is still recorded.
C7_EvictsOldest ==
    \A i \in 1..Len(evicted) : \A s \in Range(scans) : evicted[i] < s

C6_AtMostMaxScans ==
    /\ Cardinality({s \in DOMAIN scan_state : scan_state[s] \in Running}) <= MAX_REPO_SCANS
    /\ Cardinality(InFlight) <= MAX_REPO_SCANS

FailedEarly(c) == cycles[c].phase = "failed" /\ cycles[c].cause \in {"auth", "tags"}

\* C9: the step in which a cycle fails at authentication or at the tag
\* listing leaves the snapshot as it was and the scanner running, and after
\* it a pending ScanRepo still starts a new cycle.  Checked under SpecCycle.
C9_EarlyFailureKeepsSnapshot ==
    /\ [][\A c \in DOMAIN cycles :
            (cycles[c].phase \in {"auth", "tags"} /\ cycles'[c].phase = "failed")
                => (json' = json /\ writers' = writers /\ rs_state' = "running")]_vars
    /\ [](\A c \in DOMAIN cycles :
            FailedEarly(c) => /\ c \notin Range(writers)
                              /\ rs_state = "running"
                              /\ rs_pending > 0 => ENABLED RsHandleScanRepo)

\* A cycle has failed at authentication or at the tag listing while the
\* snapshot holds what an earlier cycle published, and a cycle triggered
\* later has been started.
C9_Witness ==
    \E c \in DOMAIN cycles :
        /\ FailedEarly(c)
        /\ json # ""
        /\ \E w \in Range(writers) : w < c
        /\ \E d \in DOMAIN cycles : d > c /\ cycles[d].phase # "auth"

\* C10: a failure confined to one tag (manifest fetch, manifest kind, blob
\* fetch, extraction) only skips the tag: no cycle ends in an error because
\* of it.  Checked under SpecCycle.
C10_TagFailureSkipsTag ==
    \A c \in DOMAIN cycles :
        cycles[c].phase = "failed" => cycles[c].cause \in {"auth", "tags"}

\* The layer digests a cycle works with for tag t, and whether none of the
\* layers of t yields metadata.
LayersOf(t) == GetLayerDigests(Manifest(t).kind, Manifest(t).layers).digests

YieldsNothing(t) ==
    \A k \in 1..Len(LayersOf(t)) : AssembleMetadata(Blob(LayersOf(t)[k])) = None

Resolved(c) == cycles[c].phase = "done"

\* C11: a tag for which no layer yields metadata is not an error.  When a
\* cycle has resolved Ok, the cache holds None under the hash of the layers of
\* each such tag, the cycle's releases hold none for the tag and the graph
\* built from them has no node for it; when every tag is like that, the
\* releases are empty.  No cycle fails because of an extraction.  Checked
\* under SpecCycle.
C11_NoMetadataIsNoError ==
    \A c \in DOMAIN cycles :
        /\ cycles[c].phase = "failed"
               => cycles[c].cause \in {"auth", "tags", "manifest", "kind", "blob"}
        /\ Resolved(c) =>
            LET rels == cycles[c].releases
                g == CreateGraph(rels).graph
            IN /\ \A k \in 1..Len(regTags) :
                      YieldsNothing(regTags[k]) =>
                          /\ TagHash(LayersOf(regTags[k])) \in DOMAIN cache
                          /\ cache[TagHash(LayersOf(regTags[k]))] = None
                          /\ \A n \in 1..Len(rels) : rels[n].source # Pullspec(regTags[k])
                          /\ \A n \in 1..Len(g.nodes) : g.nodes[n].payload # Pullspec(regTags[k])
               /\ (\A k \in 1..Len(regTags) : YieldsNothing(regTags[k])) => rels = <<>>

\* A cycle that resolved Ok on a repository of two tags, neither with
\* metadata in any layer: no releases, a None cached for both tags, and the
\* empty graph published.
C11_Witness ==
    /\ Len(regTags) = 2
    /\ \A k \in 1..Len(regTags) :
          /\ YieldsNothing(regTags[k])
          /\ TagHash(LayersOf(regTags[k])) \in DOMAIN cache
          /\ cache[TagHash(LayersOf(regTags[k]))] = None
    /\ \E c \in DOMAIN cycles :
          Resolved(c) /\ cycles[c].releases = <<>> /\ c \in Range(writers)
    /\ json = Serialize(EmptyGraph)

\* The release of tag t as find_first_release makes it: from the first layer,
\* in digest order, that yields metadata; None when no layer does.
ReleaseOfTag(t) ==
    LET hits == {k \in 1..Len(LayersOf(t)) : AssembleMetadata(Blob(LayersOf(t)[k])) # None}
        first == CHOOSE k \in hits : \A m \in hits : k <= m
    IN IF hits = {} THEN None
       ELSE Some(Release(t, AssembleMetadata(Blob(LayersOf(t)[first]))[1]))

RECURSIVE ReleasesOfTags(_)
ReleasesOfTags(tags) ==
    IF tags = <<>> THEN <<>>
    ELSE (IF ReleaseOfTag(Head(tags)) = None THEN <<>> ELSE <<ReleaseOfTag(Head(tags))[1]>>)
             \o ReleasesOfTags(Tail(tags))

\* C12: the releases a cycle hands to update_state are exactly the releases
\* of the tags that yield metadata, each tag's own, in the order the registry
\* listed the tags; tags without metadata are dropped.  Checked under
\* SpecCycle.
C12_ReleasesInTagOrder ==
    \A c \in DOMAIN cycles : Resolved(c) => cycles[c].releases = ReleasesOfTags(regTags)

\* C13: a cycle spawned after a cycle resolved Ok, the registry unchanged,
\* makes no get_blob call (it never waits for a blob and never fails on one),
\* and when it resolves Ok it has the releases of every other cycle that did.
\* Checked under SpecCycle.
C13_SecondCycleHitsCache ==
    \A d \in DOMAIN cycles :
        cycles[d].warm =>
            /\ cycles[d].phase # "blob"
            /\ cycles[d].cause # "blob"
            /\ Resolved(d) =>
                   \A c \in DOMAIN cycles : Resolved(c) => cycles[d].releases = cycles[c].releases

\* A cycle spawned after another resolved, itself resolved Ok, on a
\* repository whose first tag is cached as None and whose second tag has a
\* release.
C13_Witness ==
    /\ Len(regTags) = 2
    /\ YieldsNothing(regTags[1])
    /\ ~YieldsNothing(regTags[2])
    /\ \E d \in DOMAIN cycles :
          /\ cycles[d].warm /\ Resolved(d) /\ Len(cycles[d].releases) = 1
          /\ \E c \in 1..(d - 1) : Resolved(c) /\ cycles[c].releases = cycles[d].releases

(***************************************************************************)
(* Claims about create_graph and update_state (graph.rs), under SpecGraph. *)
(***************************************************************************)
VersionsIn(rels) == {rels[k].metadata.version : k \in 1..Len(rels)}

HasDuplicate(rels) ==
    \E p, q \in 1..Len(rels) : p # q /\ rels[p].metadata.version = rels[q].metadata.version

\* The versions a release list mentions: the releases' own and those named
\* in a previous or a next.
Mentioned(rels) ==
    VersionsIn(rels)
        \cup UNION {Range(rels[k].metadata.previous) : k \in 1..Len(rels)}
        \cup UNION {Range(rels[k].metadata.next) : k \in 1..Len(rels)}

\* The transitions the metadata of a release list states, as version pairs.
Stated(rels) ==
    UNION {{<<v, rels[k].metadata.version>> : v \in Range(rels[k].metadata.previous)}
              \cup {<<rels[k].metadata.version, v>> : v \in Range(rels[k].metadata.next)}
           : k \in 1..Len(rels)}

\* No release names its own version in previous or next.
SelfFree(rels) == \A e \in Stated(rels) : e[1] # e[2]

\* The edges of a graph as version pairs.
EdgeVersions(g) ==
    {<<g.nodes[g.edges[k][1]].version, g.nodes[g.edges[k][2]].version>> : k \in 1..Len(g.edges)}

\* C14: create_graph fails with the duplicate-version error whenever the
\* list holds two releases of one version, wherever they stand and whether
\* or not the version was first met as an Abstract placeholder.
C14_DuplicateVersionFails ==
    (g_built.done /\ HasDuplicate(g_releases))
        => (~g_built.ok /\ g_built.err = "DuplicateVersion")

\* create_graph has failed on a list of three: a release of version 2 that
\* names version 1 as previous, then two releases of version 1.
C14_Witness ==
    /\ g_built.done /\ ~g_built.ok /\ Len(g_releases) = 3
    /\ g_releases[1].metadata.version = 2
    /\ 1 \in Range(g_releases[1].metadata.previous)
    /\ g_releases[2].metadata.version = 1
    /\ g_releases[3].metadata.version = 1

\* C15: when create_graph fails, update_state leaves the snapshot as it was.
C15_FailedBuildKeepsSnapshot ==
    (g_built.done /\ ~g_built.ok) => json = g_prior

\* The second update_state failed at create_graph and the snapshot is still
\* the one-node graph the first one published.
C15_Witness ==
    /\ g_todo = <<>>
    /\ g_built.done /\ ~g_built.ok
    /\ json = Serialize(CreateGraph(<<PlainRelease>>).graph)
    /\ g_prior = json

\* C16: for a list of releases with pairwise distinct versions, the graph has
\* exactly one node per version mentioned; it is the Concrete node of the
\* release of that version when the list has one, whether the version was
\* named before or after that release was added, and Abstract otherwise; the
\* edges stated for a version are there after its node's promotion.
C16_OneNodePerVersion ==
    (g_built.done /\ ~HasDuplicate(g_releases)) =>
        LET g == g_built.graph
        IN /\ g_built.ok
           /\ {g.nodes[n].version : n \in 1..Len(g.nodes)} = Mentioned(g_releases)
           /\ Len(g.nodes) = Cardinality(Mentioned(g_releases))
           /\ \A n \in 1..Len(g.nodes) :
                  IF g.nodes[n].version \in VersionsIn(g_releases)
                  THEN \E k \in 1..Len(g_releases) : g.nodes[n] = Concrete(g_releases[k])
                  ELSE g.nodes[n] = Abstract(g.nodes[n].version)
           /\ \A e \in Stated(g_releases) : e[1] # e[2] => e \in EdgeVersions(g)

\* A graph built from three releases where the second one's version is named
\* as previous by the first (before its release was added) and by the third
\* (after): its node is Concrete and has both edges.
C16_Witness ==
    /\ g_built.done /\ g_built.ok /\ Len(g_releases) = 3 /\ ~HasDuplicate(g_releases)
    /\ LET v == g_releases[2].metadata.version
           n == FindByVersion(g_built.graph, v)
       IN /\ v \in Range(g_releases[1].metadata.previous)
          /\ v \in Range(g_releases[3].metadata.previous)
          /\ g_built.graph.nodes[n].kind = "Concrete"
          /\ <<v, g_releases[1].metadata.version>> \in EdgeVersions(g_built.graph)
          /\ <<v, g_releases[3].metadata.version>> \in EdgeVersions(g_built.graph)

\* What a result of create_graph says whatever the order of nodes and edges.
Unordered(built) ==
    [ok |-> built.ok, nodes |-> Range(built.graph.nodes), edges |-> EdgeVersions(built.graph)]

Reordered(rels, f) == [k \in 1..Len(rels) |-> rels[f[k]]]

\* C17: for releases with distinct versions, create_graph on any reordering
\* of the list gives the same set of nodes and the same set of edges, as
\* version pairs.
C17_PermutationInvariant ==
    (g_built.done /\ ~HasDuplicate(g_releases)) =>
        \A f \in Permutations(1..Len(g_releases)) :
            Unordered(CreateGraph(Reordered(g_releases, f))) = Unordered(g_built)

\* A graph built from three releases, with an Abstract node and two edges or
\* more, that another order of the list builds with its nodes in another
\* order.
C17_Witness ==
    /\ g_built.done /\ g_built.ok /\ Len(g_releases) = 3 /\ ~HasDuplicate(g_releases)
    /\ \E n \in 1..Len(g_built.graph.nodes) : g_built.graph.nodes[n].kind = "Abstract"
    /\ Cardinality(EdgeVersions(g_built.graph)) >= 2
    /\ \E f \in Permutations(1..3) :
          CreateGraph(Reordered(g_releases, f)).graph.nodes # g_built.graph.nodes

C19_EdgesUniqueNoSelf ==
    (g_built.done /\ g_built.ok) =>
        LET e == g_built.graph.edges
        IN /\ \A p, q \in 1..Len(e) : e[p] = e[q] => p = q
           /\ \A p \in 1..Len(e) : e[p][1] # e[p][2]
           /\ Len(e) = Cardinality({x \in Stated(g_releases) : x[1] # x[2]})

\* A graph built from release 1 with next = [2] and release 2 with
\* previous = [1]: one edge.
C19_Witness ==
    /\ g_built.done /\ g_built.ok /\ Len(g_releases) = 2
    /\ g_releases[1].metadata.version = 1 /\ g_releases[1].metadata.next = <<2>>
    /\ g_releases[2].metadata.version = 2 /\ g_releases[2].metadata.previous = <<1>>
    /\ Len(g_built.graph.edges) = 1

\* C20: an empty release list is no error: create_graph returns Ok with a
\* graph without nodes and edges, and a cycle that collected no release
\* publishes that graph's serialization.  Checked under SpecCycle.
C20_EmptyListPublishesEmptyGraph ==
    \A c \in DOMAIN cycles :
        (Resolved(c) /\ cycles[c].releases = <<>>) =>
            /\ CreateGraph(<<>>).ok
            /\ CreateGraph(<<>>).graph.nodes = <<>>
            /\ CreateGraph(<<>>).graph.edges = <<>>
            /\ c \in Range(writers)
            /\ json = Serialize(CreateGraph(<<>>).graph)

\* A cycle on a repository without tags has resolved and published.
C20_Witness ==
    /\ regTags = <<>>
    /\ \E c \in DOMAIN cycles : Resolved(c) /\ cycles[c].releases = <<>> /\ c \in Range(writers)
    /\ json = Serialize(EmptyGraph)
(***************************************************************************)
(* The HTTP endpoint (SpecServe).                                          *)
(***************************************************************************)
\* C21: GET /v1/graph answers 200 exactly when the request's Accept value
\* equals the Cincinnati content type; every other request, with another
\* value or with no Accept header, is answered 406 with an empty body,
\* whatever the snapshot holds.
C21_ContentTypeGate ==
    http_resp # NoResponse =>
        /\ http_resp.status = 200 <=> http_resp.accept = Some(CONTENT_TYPE)
        /\ http_resp.accept # Some(CONTENT_TYPE) =>
              /\ http_resp.status = 406
              /\ http_resp.body = ""

\* A request without Accept and a request with a near miss of the content
\* type have been rejected while the snapshot held a graph.
C21_Witness ==
    /\ json # ""
    /\ http_resp.status = 406
    /\ http_resp.accept \in {None, Some("Application/vnd.redhat.cincinnati.v1+json")}
    /\ nReqs >= 2

\* The state a request may not change: the snapshot, the release cache, the
\* scanner and the graph being built.
ServerState == <<json, rw_writing, handed, varsCache, varsScanner, varsGraph,
                 regTags, rs_state, rs_pending, rs_ticks, cycles, cache, writers>>

\* C22: the snapshot starts empty; a 200 response carries the snapshot as
\* it is when read, so an acceptable request answered before any
\* publication gets 200 with an empty body; no request, accepted or
\* rejected, changes the snapshot or any other internal state.
C22_ServesSnapshotUnchanged ==
    [][ /\ (nReqs' # nReqs \/ rw_readers' # rw_readers) => UNCHANGED ServerState
        /\ (\E r \in rw_readers : r \notin rw_readers') =>
              /\ http_resp'.status = 200
              /\ http_resp'.content_type = CONTENT_TYPE
              /\ http_resp'.body = json
              /\ (handed = {} => http_resp'.body = "")
        /\ (handed = {} /\ rw_writing = None) => json = "" ]_vars

\* An acceptable request has been answered 200 with the published graph
\* while another handler still holds the read lock.
C22_Witness ==
    /\ http_resp.status = 200
    /\ http_resp.body # ""
    /\ http_resp.body = json
    /\ rw_readers # {}

\* C23: whatever the interleaving of reads and publications, the body a
\* reader obtains is the initial empty string or a serialized graph that
\* one update_state wrote in full, never a partly written value.
C23_NoTornRead ==
    http_resp.status = 200 => http_resp.body \in {""} \cup handed

\* A reader was answered with a published graph while the next publication
\* holds the write lock.
C23_Witness ==
    /\ http_resp.status = 200
    /\ http_resp.body \in handed
    /\ rw_writing # None
    /\ json # http_resp.body

(***************************************************************************)
(* The scanner's lifecycle (SpecBurst).                                    *)
(***************************************************************************)
\* C24: the actor's start triggers one ScanRepo before any period has
\* elapsed, every tick of the period triggers exactly one more, and the
\* next tick can come whether the earlier scans succeeded, failed or are
\* still running.
C24_ImmediateThenPeriodic ==
    /\ rs_state = "created" => (rs_pending = 0 /\ rs_ticks = 0 /\ cycles = <<>>)
    /\ rs_state = "running" => rs_pending + Len(cycles) = 1 + rs_ticks
    /\ (rs_state = "running" /\ rs_ticks + 1 < MAX_REPO_SCANS + 1) =>
          ENABLED RsTick(MAX_REPO_SCANS + 1)

\* Three ticks have come after the start while one scan had succeeded, one
\* had failed and one was still running.
C24_Witness ==
    /\ rs_ticks = 3
    /\ rs_pending + Len(cycles) = 4
    /\ \E c \in DOMAIN cycles : cycles[c].phase = "done"
    /\ \E c \in DOMAIN cycles : cycles[c].phase = "failed"
    /\ InFlight # {}

(***************************************************************************)
(* The plugin loader (SpecPlugins).                                        *)
(***************************************************************************)
HasName(cfg) == cfg[1] = "table" /\ "name" \in DOMAIN cfg[2]
NameIsString(cfg) == HasName(cfg) /\ cfg[2]["name"][1] = "str"
Loaded == p_settings # None

\* C25: deserialize_config fails for an empty record, for a record with
\* other keys but no `name`, and for a record whose `name` is not a
\* string, and produces no settings value then.
C25_NoUsableNameIsRejected ==
    (Loaded /\ ~NameIsString(p_cfg)) =>
        /\ ~p_settings[1].ok
        /\ p_settings[1].value = None
        /\ p_plugin = None
        /\ ~HasName(p_cfg) => p_settings[1].err = "missing plugin name"
        /\ HasName(p_cfg) => p_settings[1].err = "invalid plugin name value"

\* The loader has rejected the record {foo: bar}.
C25_Witness ==
    /\ Loaded
    /\ p_cfg = Table(Absent, Absent, Str("bar"))
    /\ ~p_settings[1].ok

\* C26: a name outside the catalog fails with the unknown-plugin error
\* that carries the name; a catalog name is handed to the deserializer of
\* that plugin and no other; {name: node-remove} and
\* {name: quay-metadata, repository: mytest} load and build.
C26_LookupByName ==
    (Loaded /\ NameIsString(p_cfg)) =>
        LET name == p_cfg[2]["name"][2]
        IN /\ name \notin PluginNames =>
                  /\ ~p_settings[1].ok
                  /\ p_settings[1].err = "unknown plugin '" \o name \o "'"
           /\ name \in PluginNames =>
                  /\ p_settings[1] = PluginDeserialize(name, p_cfg)
                  /\ p_settings[1].ok => p_settings[1].value[1].name = name
           /\ p_cfg \in {Table(Str("node-remove"), Absent, Absent),
                         Table(Str("quay-metadata"), Str("mytest"), Absent)} =>
                  /\ p_settings[1].ok
                  /\ p_plugin # None => p_plugin[1].ok
                  /\ ENABLED BuildPlugins \/ p_plugin # None

\* {name: quay-metadata, repository: mytest} has been loaded and built.
C26_Witness ==
    /\ p_cfg = Table(Str("quay-metadata"), Str("mytest"), Absent)
    /\ p_plugin # None
    /\ p_plugin[1].ok
    /\ p_plugin[1].value[1].settings = <<<<"repository", "mytest">>>>

(***************************************************************************)
(* The search for a tag's release and the order of its layers (SpecFind).  *)
(***************************************************************************)
\* What the blob of the k-th layer of the cycle's tag yields.
LayerMetadata(c, k) == AssembleMetadata(Blob(DigestsOf(c)[k]))

\* C27: on a miss the layers are fetched one at a time in the order of
\* the digest list; the release found is that of the first layer whose
\* blob yields metadata, no layer after it is fetched, and None is the
\* result only when the last layer has been fetched and none yielded
\* metadata.
C27_FirstLayerInOrderWins ==
    [][\A c \in DOMAIN cycles :
          /\ (cycles[c].phase = "blob" /\ cycles'[c].phase = "blob"
                                        /\ cycles'[c] # cycles[c]) =>
                /\ cycles'[c].j = cycles[c].j + 1
                /\ cycles'[c].i = cycles[c].i
                /\ LayerMetadata(c, cycles[c].j) = None
          /\ (cycles[c].phase # "blob" /\ cycles'[c].phase = "blob") =>
                /\ cycles[c].phase = "query"
                /\ cycles'[c].j = 1
          /\ (cycles[c].phase = "blob" /\ cycles'[c].phase = "update") =>
                /\ \A k \in 1..(cycles[c].j - 1) : LayerMetadata(c, k) = None
                /\ cycles'[c].found # None =>
                      /\ LayerMetadata(c, cycles[c].j) # None
                      /\ cycles'[c].found[1].metadata = LayerMetadata(c, cycles[c].j)[1]
                /\ cycles'[c].found = None =>
                      /\ cycles[c].j = Len(DigestsOf(c))
                      /\ LayerMetadata(c, cycles[c].j) = None
      ]_vars

\* The search of tag h, whose layers in digest order are d0, d2, d3, d1, has
\* ended at the second layer with the release of version 2.
C27_Witness ==
    \E c \in DOMAIN cycles :
        /\ cycles[c].phase = "update"
        /\ regTags = <<"h">>
        /\ ~cycles[c].warm
        /\ cycles[c].found # None
        /\ cycles[c].found[1].metadata.version = 2

\* The cycles that have asked for the manifest of a tag and got an answer
\* worth layers.
HasDigests(c) == cycles[c].phase \in {"query", "blob", "update"}

\* C28: for a V2S1Signed and for a V2S2 manifest the digest list is the
\* manifest's layer list reversed, of the same length; for any other kind,
\* an absent one included, the call fails and no digest list comes back.
C28_LayersReversed ==
    \A c \in DOMAIN cycles :
        cycles[c].i >= 1 =>
            LET raw == Manifest(TagOf(c)).layers
                kind == Manifest(TagOf(c)).kind
                got == GetLayerDigests(kind, raw)
            IN IF kind \in {"ManifestV2S1Signed", "ManifestV2S2"}
               THEN /\ got.ok
                    /\ Len(got.digests) = Len(raw)
                    /\ \A k \in 1..Len(raw) : got.digests[k] = raw[Len(raw) + 1 - k]
                    /\ cycles[c].phase = "blob" =>
                          DigestsOf(c)[cycles[c].j] = raw[Len(raw) + 1 - cycles[c].j]
               ELSE /\ ~got.ok
                    /\ got.digests = <<>>
                    /\ ~HasDigests(c)
                    /\ cycles[c].phase = "failed" => cycles[c].cause \in {"kind", "manifest"}

\* A cycle on tag h, whose manifest lists d1, d3, d2, d0, is fetching its
\* first layer, d0.
C28_Witness ==
    \E c \in DOMAIN cycles :
        /\ regTags = <<"h">>
        /\ cycles[c].phase = "blob"
        /\ cycles[c].j = 1
        /\ DigestsOf(c)[1] = "d0"

(***************************************************************************)
(* Cycles in flight together (SpecCycle).                                  *)
(***************************************************************************)
\* C29: snapshots are published in the order in which their cycles were
\* triggered: once a cycle has published, no cycle triggered before it
\* publishes.
C29_PublishedInCycleOrder ==
    \A k \in 1..Len(writers), l \in 1..Len(writers) : k < l => writers[k] < writers[l]

\* C30: the release a cycle yields for a tag carries the pullspec of that
\* tag, host/repo:tag, whether it comes from the layers or from the cache,
\* also when another tag has the same ordered list of layer digests.
C30_ReleaseNamesItsTag ==
    \A c \in DOMAIN cycles :
        (cycles[c].phase = "update" /\ cycles[c].found # None) =>
            cycles[c].found[1].source = Pullspec(TagOf(c))

(***************************************************************************)
(* Reads of either cache (SpecReads).                                      *)
(***************************************************************************)
\* The key of the tag a cycle is working on.
KeyOf(c) == TagHash(DigestsOf(c))

\* C31: a Query changes neither cache: the CacheManager's sets and map are
\* as they were after it has replied, and so is the hash-keyed cache after
\* a QueryCache, whose hit yields the value stored; the write-back of a hit
\* re-inserts the value stored, so no step of a cycle whose tags all hit (a
\* cycle started after another has finished, on a repository that only
\* loses tags) changes the mapping from keys to values.
C31_ReadsLeaveCacheAlone ==
    [][ /\ (inbox # <<>> /\ Head(inbox).type = "Query" /\ inbox' = Tail(inbox)) =>
              /\ UNCHANGED <<no_release, tagged_release>>
              /\ reply'.cached = QueryResult(no_release, tagged_release, Head(inbox).tag)
        /\ \A c \in DOMAIN cycles :
              /\ (cycles[c].phase = "query" /\ cycles'[c] # cycles[c]) =>
                    /\ cache' = cache
                    /\ KeyOf(c) \in DOMAIN cache =>
                          /\ cycles'[c].phase = "update"
                          /\ cycles'[c].found = cache[KeyOf(c)]
              /\ (cycles[c].warm /\ cycles'[c] # cycles[c]) => cache' = cache
      ]_vars
====
